---- MODULE Spec2Model ----
(***************************************************************************)
(* State-machine model of the React components and hooks of the            *)
(* repository:                                                             *)
(*   - DataFetching (src/src/components/data-fetching.jsx): the paginated  *)
(*     fetch with an AbortController kept in a ref;                        *)
(*   - useDebounce  (src/src/components/custom-hooks/hooks.js): the        *)
(*     debouncing hook built on setTimeout / clearTimeout.                 *)
(*                                                                         *)
(* React semantics assumed throughout: a state setter called from an event *)
(* handler re-renders the component and runs the effects whose             *)
(* dependencies changed (previous cleanup first) before any other task     *)
(* runs, so "set state + re-render + effect" is one step; a state setter   *)
(* called on an unmounted component changes nothing; JavaScript runs every *)
(* callback to completion (one event loop).                                *)
(***************************************************************************)
EXTENDS Integers, Sequences, FiniteSets

(***************************************************************************)
(* Bounds of the model.                                                    *)
(***************************************************************************)
\* The "Increase Page" button is pressed at most MaxPage times.
MaxPage == 3

\* page starts at useState(0).
InitialPage == 0

\* useRef(null): no AbortController. Controller ids are 1, 2, ...
Null == 0

(***************************************************************************)
(* DataFetching: state.                                                    *)
(***************************************************************************)
VARIABLES
    dfMounted,           \* "unmounted" | "mounted" | "disposed"
    page,                \* useState(0)
    posts,               \* useState([])
    isLoading,           \* useState(false)
    error,               \* useState()
    abortControllerRef,  \* useRef(null).current: Null or a controller id
    ctrls,               \* number of AbortControllers constructed so far
    aborted,             \* controllers whose abort() has been called
    attempts,            \* calls of fetchPosts that reached the try block
    unhandled,           \* fetchPosts promises that ended rejected
    prevPosts,           \* posts as it was when the effect last ran
    renderedError,       \* error as the last render saw it
    transport            \* what the server answers for each page

dfVars == <<dfMounted, page, posts, isLoading, error, abortControllerRef,
            ctrls, aborted, attempts, unhandled, prevPosts, renderedError,
            transport>>

(***************************************************************************)
(* useDebounce: state (its operations follow DataFetching's).              *)
(***************************************************************************)
VARIABLES
    dbMounted,       \* "unmounted" | "mounted" | "disposed"
    value,           \* the hook's first argument in the latest render
    delay,           \* the hook's second argument in the latest render
    debouncedValue,  \* useState(value)
    timerRef,        \* useRef(null).current: Null or a timer id
    timers,          \* every setTimeout call so far, indexed by timer id
    writes,          \* the timers whose callback ran, in order
    now              \* the clock

dbVars == <<dbMounted, value, delay, debouncedValue, timerRef, timers,
            writes, now>>

(***************************************************************************)
(* UseDebounce, the debounced search component: state.  Its search text    *)
(* and debounced search text are the hook's value and debouncedValue.      *)
(***************************************************************************)
VARIABLES
    loading,         \* useState(false)
    users,           \* useState([])
    loads,           \* every loadUsers call so far
    srUnhandled,     \* loadUsers promises that ended rejected
    userService      \* what fetchUsers answers for each search text

srVars == <<loading, users, loads, srUnhandled, userService>>

(***************************************************************************)
(* The small demos: state.                                                 *)
(***************************************************************************)
VARIABLES
    providers,       \* useContext demo: the values of the
                     \* DashboardContext.Provider elements above the
                     \* consumer, outermost first
    user,            \* useContext demo: what useUserContext() came to in
                     \* Profile
    profile,         \* useContext demo: what rendering Profile came to
    count,           \* useRef demo: useState(0)
    countRef,        \* useRef demo: useRef(0), its .current
    renderCount,     \* useRef demo: useState(0)
    console,         \* useRef demo: what the handlers logged, in order
    rrUsers,         \* RenderRows: users, as the list of their ids
    rrRendered,      \* RenderRows: users as the last render saw it
    rrIsLoading,     \* RenderRows: isLoading
    rrCalls,         \* RenderRows: every fetchNextPage call so far
    keysUsers,       \* Keys: users, as the list of their ids
    keysClicked      \* Keys: the ids whose button was clicked

ctVars == <<providers, user, profile>>

rfVars == <<count, countRef, renderCount, console>>

rrVars == <<rrUsers, rrRendered, rrIsLoading, rrCalls>>

kyVars == <<keysUsers, keysClicked>>

demoVars == <<ctVars, rfVars, rrVars, kyVars>>

vars == <<dfVars, dbVars, srVars, demoVars>>

Pages == InitialPage..(InitialPage + MaxPage)

\* The outcomes of `await fetch(...)` followed by `await response.json()`
\* when the request is not aborted: both resolve, fetch rejects (network
\* failure, a TypeError), or json() rejects (undecodable body, a SyntaxError).
Outcomes == {"ok", "networkError", "decodeError"}

\* The initial posts, [].
NoPosts == <<>>

\* The parsed body of the response for page p.
PostsOf(p) == <<p>>

\* error is undefined until setError is called.
NoError == [name |-> "undefined", page |-> -1]

\* The exception a failed, non-aborted request for page p throws.
ErrorOf(p, outcome) ==
    [name |-> IF outcome = "networkError" THEN "TypeError" ELSE "SyntaxError",
     page |-> p]

Attempt(p, c) == [page |-> p, ctrl |-> c, pc |-> "fetch"]

AttemptIds == 1..Len(attempts)

InFlight == {a \in AttemptIds : attempts[a].pc # "done"}

\* Setters of an unmounted component are no-ops.
Live == dfMounted = "mounted"

(***************************************************************************)
(* DataFetching: the component as constructed (before its first render is  *)
(* committed).  The transport's answers are an input of the run.           *)
(***************************************************************************)
DfInit ==
    /\ dfMounted = "unmounted"
    /\ page = InitialPage
    /\ posts = NoPosts
    /\ isLoading = FALSE
    /\ error = NoError
    /\ abortControllerRef = Null
    /\ ctrls = 0
    /\ aborted = {}
    /\ attempts = <<>>
    /\ unhandled = 0
    /\ prevPosts = NoPosts
    /\ renderedError = NoError
    /\ transport \in [Pages -> Outcomes]

\* fetchPosts up to its first await, called by the effect of the render
\* whose page is p.  Line 15 dereferences abortControllerRef.current: on
\* null it throws a TypeError outside the try block, so the async function
\* returns a rejected promise that nothing handles and no later line runs.
fetchPosts(p) ==
    /\ prevPosts' = posts
    /\ IF abortControllerRef = Null
       THEN /\ unhandled' = unhandled + 1
            /\ UNCHANGED <<posts, isLoading, error, abortControllerRef,
                           ctrls, aborted, attempts>>
       ELSE /\ aborted' = aborted \cup {abortControllerRef}
            /\ ctrls' = ctrls + 1
            /\ abortControllerRef' = ctrls + 1
            /\ isLoading' = TRUE
            /\ attempts' = Append(attempts, Attempt(p, ctrls + 1))
            /\ UNCHANGED <<posts, error, unhandled>>

\* First render committed: useEffect(..., [page]) runs fetchPosts.
DfMount ==
    /\ dfMounted = "unmounted"
    /\ dfMounted' = "mounted"
    /\ renderedError' = error
    /\ fetchPosts(page)
    /\ UNCHANGED <<page, transport, dbVars, srVars, demoVars>>

\* onClick={() => setPage(page + 1)}.  The button is there when the last
\* render saw no error (the early return of the error view); an error set
\* since then has not been rendered yet.  The click's re-render takes in
\* every pending state update and changes the dependency [page], so the
\* effect runs fetchPosts again.
IncreasePage ==
    /\ dfMounted = "mounted"
    /\ renderedError = NoError
    /\ page < InitialPage + MaxPage
    /\ page' = page + 1
    /\ renderedError' = error
    /\ fetchPosts(page + 1)
    /\ UNCHANGED <<dfMounted, transport, dbVars, srVars, demoVars>>

\* The re-render asked for by setError in the continuation of a failed
\* await: from now on the error view is shown.
DfRerender ==
    /\ dfMounted = "mounted"
    /\ renderedError # error
    /\ renderedError' = error
    /\ UNCHANGED <<dfMounted, page, posts, isLoading, error,
                   abortControllerRef, ctrls, aborted, attempts, unhandled,
                   prevPosts, transport, dbVars, srVars, demoVars>>

\* The component is unmounted.  The effect returns no cleanup function, so
\* nothing is aborted and the ref is left as it is.
DfUnmount ==
    /\ dfMounted = "mounted"
    /\ dfMounted' = "disposed"
    /\ UNCHANGED <<page, posts, isLoading, error, abortControllerRef, ctrls,
                   aborted, attempts, unhandled, prevPosts, renderedError,
                   transport,
                   dbVars, srVars, demoVars>>

\* `finally { setIsLoading(false) }`: runs on every way out of the try
\* block, the `return` of the AbortError branch included.
Finally == isLoading' = (IF Live THEN FALSE ELSE isLoading)

\* `catch (error)`: an AbortError is logged and dropped, anything else is
\* stored with setError.
Catch(e) ==
    error' = (IF e.name # "AbortError" /\ Live THEN e ELSE error)

AbortError(p) == [name |-> "AbortError", page |-> p]

Done(a) == [attempts EXCEPT ![a].pc = "done"]

\* `await fetch(url, {signal})` settles for attempt a.  A request whose
\* signal is aborted rejects with an AbortError; otherwise the transport
\* decides between a response and a network failure.
FetchSettles(a) ==
    /\ a \in AttemptIds
    /\ attempts[a].pc = "fetch"
    /\ LET p == attempts[a].page IN
       IF attempts[a].ctrl \in aborted
       THEN /\ Catch(AbortError(p))
            /\ Finally
            /\ attempts' = Done(a)
       ELSE IF transport[p] = "networkError"
       THEN /\ Catch(ErrorOf(p, "networkError"))
            /\ Finally
            /\ attempts' = Done(a)
       ELSE /\ attempts' = [attempts EXCEPT ![a].pc = "json"]
            /\ UNCHANGED <<error, isLoading>>
    /\ UNCHANGED <<dfMounted, page, posts, abortControllerRef, ctrls,
                   aborted, unhandled, prevPosts, renderedError,
                   transport, dbVars,
                   srVars, demoVars>>

\* `await response.json()` settles for attempt a, then setPosts(posts).
JsonSettles(a) ==
    /\ a \in AttemptIds
    /\ attempts[a].pc = "json"
    /\ LET p == attempts[a].page IN
       IF attempts[a].ctrl \in aborted
       THEN /\ Catch(AbortError(p))
            /\ UNCHANGED posts
       ELSE IF transport[p] = "decodeError"
       THEN /\ Catch(ErrorOf(p, "decodeError"))
            /\ UNCHANGED posts
       ELSE /\ posts' = (IF Live THEN PostsOf(p) ELSE posts)
            /\ UNCHANGED error
    /\ Finally
    /\ attempts' = Done(a)
    /\ UNCHANGED <<dfMounted, page, abortControllerRef, ctrls, aborted,
                   unhandled, prevPosts, renderedError,
                   transport, dbVars,
                   srVars, demoVars>>

(***************************************************************************)
(* useDebounce(value, delay): state.  Time is counted in ticks; a timer    *)
(* set with setTimeout(cb, d) at time t may run its callback at any time   *)
(* from t + d on, as a task of its own, unless it is cleared first.        *)
(***************************************************************************)
\* The clock runs from 0 to MaxTime.
MaxTime == 3

\* The hook is called with delays 0..MaxDelay.
MaxDelay == 2

\* setTimeout is called at most MaxTimers times.
MaxTimers == 3

\* The raw values the caller passes (the search texts).
Values == {"", "j", "jo"}

Delays == 0..MaxDelay


TimerIds == 1..Len(timers)

LiveTimers == {t \in TimerIds : timers[t].state = "live"}

\* A hook whose state is created empty, useState(""), whatever the first
\* raw value is.
DbInitUnset ==
    /\ dbMounted = "unmounted"
    /\ value \in Values
    /\ delay \in Delays
    /\ debouncedValue = ""
    /\ timerRef = Null
    /\ timers = <<>>
    /\ writes = <<>>
    /\ now = 0

\* A clearTimeout that leaves the timer pending.
clearTimeoutIgnored(ts, id) == ts

\* The hook as constructed: useState(value) makes the first raw value the
\* stable value at once; no timer exists yet.
DbInit ==
    /\ dbMounted = "unmounted"
    /\ value \in Values
    /\ delay \in Delays
    /\ debouncedValue = value
    /\ timerRef = Null
    /\ timers = <<>>
    /\ writes = <<>>
    /\ now = 0

\* clearTimeout(id): a timer that is still pending will never run; clearing
\* a timer that has run or was cleared does nothing.
clearTimeout(ts, id) ==
    IF id \in 1..Len(ts) /\ ts[id].state = "live"
    THEN [ts EXCEPT ![id].state = "cleared"]
    ELSE ts

\* An effect and cleanup without the clearTimeout call.
ClearPendingSkipped(ts) == ts

\* `if (timerRef.current) { clearTimeout(timerRef.current); }`, as written
\* at the head of the effect and again in its cleanup function.
ClearPending(ts) ==
    IF timerRef # Null THEN clearTimeout(ts, timerRef) ELSE ts

\* A cleanup function that forgets the pending timer.
EffectCleanupForgets(ts) == ts

\* The cleanup function the effect returns.
EffectCleanup(ts) == ClearPending(ts)

\* setTimeout(() => setDebouncedValue(v), d) called at time `now`: the
\* callback closes over the value of the render that ran the effect.
setTimeout(ts, v, d) ==
    Append(ts, [value |-> v, delay |-> d, at |-> now, state |-> "live"])

\* The id setTimeout returns is dropped: the ref keeps what it held.
StoreTimerDropped(id) == timerRef

\* `timerRef.current = setTimeout(...)`: the ref takes the new timer's id.
StoreTimer(id) == id

\* The effect of a render with arguments (v, d), given the timers left by
\* the previous effect's cleanup.
Effect(ts, v, d) ==
    /\ timers' = setTimeout(ClearPending(ts), v, d)
    /\ timerRef' = StoreTimer(Len(ts) + 1)

\* First render committed: the effect runs for the first time.
DbMountStep ==
    /\ dbMounted = "unmounted"
    /\ dbMounted' = "mounted"
    /\ Effect(timers, value, delay)
    /\ UNCHANGED <<value, delay, debouncedValue, writes, now>>

DbMount == DbMountStep /\ UNCHANGED <<dfVars, srVars, demoVars>>

\* A hook that writes the stable value inline when the delay is 0.
SetValueStepInline(v) ==
    /\ dbMounted = "mounted"
    /\ v # value
    /\ Len(timers) < MaxTimers
    /\ value' = v
    /\ Effect(EffectCleanup(timers), v, delay)
    /\ debouncedValue' = (IF delay = 0 THEN v ELSE debouncedValue)
    /\ UNCHANGED <<dbMounted, delay, writes, now>>

\* The caller re-renders with a new raw value: the dependency [value, delay]
\* changed, so the previous cleanup runs and then the effect.
SetValueStep(v) ==
    /\ dbMounted = "mounted"
    /\ v # value
    /\ Len(timers) < MaxTimers
    /\ value' = v
    /\ Effect(EffectCleanup(timers), v, delay)
    /\ UNCHANGED <<dbMounted, delay, debouncedValue, writes, now>>

SetValue(v) == SetValueStep(v) /\ UNCHANGED <<dfVars, srVars, demoVars>>

\* An effect whose dependency array is [value] only: a new delay re-runs
\* nothing.
SetDelayStepNoReschedule(d) ==
    /\ dbMounted = "mounted"
    /\ d # delay
    /\ Len(timers) < MaxTimers
    /\ delay' = d
    /\ UNCHANGED <<dbMounted, value, debouncedValue, timerRef, timers,
                   writes, now>>

\* The caller re-renders with a new delay: same dependency array.
SetDelayStep(d) ==
    /\ dbMounted = "mounted"
    /\ d # delay
    /\ Len(timers) < MaxTimers
    /\ delay' = d
    /\ Effect(EffectCleanup(timers), value, d)
    /\ UNCHANGED <<dbMounted, value, debouncedValue, writes, now>>

SetDelay(d) == SetDelayStep(d) /\ UNCHANGED <<dfVars, srVars, demoVars>>

\* A pending timer whose delay has elapsed runs its callback,
\* setDebouncedValue(v).  The ref keeps the id of the timer that ran.
TimerFiresStep(t) ==
    /\ t \in LiveTimers
    /\ now >= timers[t].at + timers[t].delay
    /\ timers' = [timers EXCEPT ![t].state = "fired"]
    /\ writes' = Append(writes, t)
    /\ debouncedValue' =
         (IF dbMounted = "mounted" THEN timers[t].value ELSE debouncedValue)
    /\ UNCHANGED <<dbMounted, value, delay, timerRef, now>>

TimerFires(t) == TimerFiresStep(t) /\ UNCHANGED <<dfVars, srVars, demoVars>>

\* The component using the hook is unmounted: the cleanup runs.
DbUnmountStep ==
    /\ dbMounted = "mounted"
    /\ dbMounted' = "disposed"
    /\ timers' = EffectCleanup(timers)
    /\ UNCHANGED <<value, delay, debouncedValue, timerRef, writes, now>>

DbUnmount == DbUnmountStep /\ UNCHANGED <<dfVars, srVars, demoVars>>

\* Time passes.
TickStep ==
    /\ now < MaxTime
    /\ now' = now + 1
    /\ UNCHANGED <<dbMounted, value, delay, debouncedValue, timerRef, timers,
                   writes>>

Tick == TickStep /\ UNCHANGED <<dfVars, srVars, demoVars>>

(***************************************************************************)
(* UseDebounce, the debounced search component                             *)
(* (src/src/components/use-callback.jsx, lines 68-96).  It calls           *)
(* useDebounce(search) with the default delay and runs loadUsers in an     *)
(* effect on [debouncedSearch].  fetchUsers (./utils) and SearchBar are    *)
(* not among the repository's files here: fetchUsers is taken to be the    *)
(* specification's fetch capability, perform(key) -> eventually a result   *)
(* or a failure, completing in any order; SearchBar to call onChange with  *)
(* the text typed.                                                         *)
(***************************************************************************)
\* useDebounce's default delay (500 ms), in ticks of 250 ms.
DefaultDelay == 2

\* What fetchUsers can do with a request: resolve with the users matching
\* the text, or reject.
ServiceOutcomes == {"ok", "fail"}

\* The initial users, [].
NoUsers == <<>>

\* The users fetchUsers resolves with for search text k.
UsersOf(k) == <<k>>

LoadIds == 1..Len(loads)

PendingLoads == {l \in LoadIds : loads[l].pc = "pending"}

\* The component as constructed: search = "", so debouncedSearch = "".
SrInit ==
    /\ loading = FALSE
    /\ users = NoUsers
    /\ loads = <<>>
    /\ srUnhandled = 0
    /\ userService \in [Values -> ServiceOutcomes]

\* loadUsers up to its await, called by the effect of the render whose
\* debouncedSearch is k: setLoading(true), then fetchUsers(k) is issued.
\* Nothing is cancelled and the call keeps no handle on the request.
loadUsers(k) ==
    /\ loading' = TRUE
    /\ loads' = Append(loads, [key |-> k, pc |-> "pending"])
    /\ UNCHANGED <<users, srUnhandled, userService>>

\* First render committed: the hook's effect and the loadUsers effect run.
SrMount ==
    /\ DbMountStep
    /\ loadUsers(debouncedValue)
    /\ UNCHANGED <<dfVars, demoVars>>

\* The effect on [debouncedSearch] has yet to run for the debounced text:
\* the text it last ran with is the one of the latest loadUsers call.
EffectPending ==
    /\ dbMounted = "mounted"
    /\ loads # <<>>
    /\ loads[Len(loads)].key # debouncedValue

\* An effect that depends on [search]: every keystroke calls loadUsers.
SrTypeLoads(v) ==
    /\ SetValueStep(v)
    /\ loadUsers(v)
    /\ UNCHANGED <<dfVars, demoVars>>

\* <SearchBar onChange={setSearch} />: search changes and the component
\* re-renders.  The hook's effect runs again; the render also carries a
\* setDebouncedValue still waiting to be rendered, and then the effect on
\* [debouncedSearch] runs with it.
SrType(v) ==
    /\ SetValueStep(v)
    /\ IF EffectPending THEN loadUsers(debouncedValue) ELSE UNCHANGED srVars
    /\ UNCHANGED <<dfVars, demoVars>>

\* The hook's timer runs its callback, setDebouncedValue(v), which only
\* asks for a re-render and returns to the event loop.
SrTimerFires(t) ==
    /\ TimerFiresStep(t)
    /\ UNCHANGED <<dfVars, srVars, demoVars>>

\* The re-render asked for by setDebouncedValue and its effects: the
\* dependency [debouncedSearch] differs from the one the effect last ran
\* with, so loadUsers is called.
SrRerender ==
    /\ EffectPending
    /\ loadUsers(debouncedValue)
    /\ UNCHANGED <<dfVars, dbVars, demoVars>>

\* `await fetchUsers(debouncedSearch)` settles for call l.  On success
\* setUsers(users) and setLoading(false) run, whichever call it is; on
\* failure the await throws, loadUsers has no try block, and its promise is
\* rejected with nothing handling it.
LoadSettles(l) ==
    /\ l \in PendingLoads
    /\ loads' = [loads EXCEPT ![l].pc = "done"]
    /\ IF userService[loads[l].key] = "ok"
       THEN /\ users' = (IF dbMounted = "mounted" THEN UsersOf(loads[l].key)
                                                  ELSE users)
            /\ loading' = (IF dbMounted = "mounted" THEN FALSE ELSE loading)
            /\ UNCHANGED srUnhandled
       ELSE /\ srUnhandled' = srUnhandled + 1
            /\ UNCHANGED <<users, loading>>
    /\ UNCHANGED <<userService, dfVars, dbVars, demoVars>>

\* The component is unmounted: the hook's cleanup runs; the loadUsers
\* effect returns no cleanup.
SrUnmount ==
    /\ DbUnmountStep
    /\ UNCHANGED <<dfVars, srVars, demoVars>>

(***************************************************************************)
(* useUserContext (src/src/components/useContext/context.js) and its       *)
(* consumer Profile.  The input of a render is the chain of                *)
(* DashboardContext.Provider elements above the consumer.                  *)
(***************************************************************************)
\* Providers are nested at most MaxDepth deep.
MaxDepth == 3

\* The values a provider is given.  Undefined and NullValue are the
\* JavaScript values undefined and null.
Undefined == [kind |-> "undefined", name |-> ""]

NullValue == [kind |-> "null", name |-> ""]

\* useState({ isInterested: true, name: "You" }) in UseContext.
UserYou == [kind |-> "object", name |-> "You"]

UserOther == [kind |-> "object", name |-> "Other"]

ProvidedValues == {Undefined, NullValue, UserYou, UserOther}

\* createContext(undefined): the value read where no provider is above.
DefaultValue == Undefined

\* Profile has not been rendered yet: the hook has not been called.
Uncalled == [threw |-> FALSE, value |-> [kind |-> "none", name |-> ""]]

Unrendered == [threw |-> "", text |-> ""]

\* useContext(DashboardContext): the value of the nearest provider above,
\* or the context's default.
useContext(ps) == IF ps = <<>> THEN DefaultValue ELSE ps[Len(ps)]

\* The hook either throws or returns.
Threw == [threw |-> TRUE, value |-> Undefined]

Returned(v) == [threw |-> FALSE, value |-> v]

\* A hook that returns whatever useContext gave it.
useUserContextUnchecked(ps) == Returned(useContext(ps))

\* useUserContext: `if (user === undefined) throw new Error(...)`.
useUserContext(ps) ==
    LET got == useContext(ps) IN
    IF got = Undefined THEN Threw ELSE Returned(got)

\* What rendering Profile comes to, given what the hook came to: the
\* hook's Error goes through; `user.name` throws a TypeError on null;
\* otherwise <div>{user.name}</div> is rendered.
ProfileOutput(u) ==
    IF u.threw THEN [threw |-> "Error", text |-> ""]
    ELSE IF u.value = NullValue THEN [threw |-> "TypeError", text |-> ""]
    ELSE [threw |-> "", text |-> u.value.name]

CtInit ==
    /\ providers \in UNION {[1..n -> ProvidedValues] : n \in 0..MaxDepth}
    /\ user = Uncalled
    /\ profile = Unrendered

\* Profile is rendered: `const user = useUserContext()`, then
\* `return <div>{user.name}</div>`.
RenderProfile ==
    /\ user = Uncalled
    /\ user' = useUserContext(providers)
    /\ profile' = ProfileOutput(useUserContext(providers))
    /\ UNCHANGED <<providers, dfVars, dbVars, srVars, rfVars, rrVars, kyVars>>

(***************************************************************************)
(* UseRefExplanation, the useState-vs-useRef demo (src/unnamed/part_004).  *)
(* A click is a discrete event: the state updates of its handler are       *)
(* rendered before the next click is handled, so each handler sees the     *)
(* state of the latest render.                                             *)
(***************************************************************************)
\* The buttons are pressed at most MaxClicks times in all.
MaxClicks == 5

Clicks == countRef + renderCount

RfInit ==
    /\ count = 0
    /\ countRef = 0
    /\ renderCount = 0
    /\ console = <<>>

\* What handleIncrement logs if the state update were already visible.
LoggedByIncrementEager == <<count + 1, countRef + 1>>

\* console.log("State: ", count); console.log("Ref: ", countRef.current),
\* after countRef.current++: count is the constant of the render that
\* created the handler.
LoggedByIncrement == <<count, countRef + 1>>

\* handleIncrement, then the re-render setCount causes.
handleIncrement ==
    /\ Clicks < MaxClicks
    /\ count' = count + 1
    /\ countRef' = countRef + 1
    /\ console' = Append(console, [handler |-> "handleIncrement",
                                   args |-> LoggedByIncrement])
    /\ UNCHANGED <<renderCount, dfVars, dbVars, srVars, ctVars, rrVars,
                   kyVars>>

\* handleOnlyRef: the ref changes, nothing is rendered.
handleOnlyRef ==
    /\ Clicks < MaxClicks
    /\ countRef' = countRef + 1
    /\ console' = Append(console, [handler |-> "handleOnlyRef",
                                   args |-> <<countRef + 1>>])
    /\ UNCHANGED <<count, renderCount, dfVars, dbVars, srVars, ctVars,
                   rrVars, kyVars>>

\* forceRerender: setRenderCount(renderCount + 1).
forceRerender ==
    /\ Clicks < MaxClicks
    /\ renderCount' = renderCount + 1
    /\ UNCHANGED <<count, countRef, console, dfVars, dbVars, srVars, ctVars,
                   rrVars, kyVars>>

(***************************************************************************)
(* RenderRows (src/src/components/renderrows/render-rows.jsx).  The table  *)
(* calls endReached, that is fetchNextPage, whenever its end is scrolled   *)
(* into view, also while an earlier call is still waiting.  A user is      *)
(* modelled by its id; its name is a function of the id.                   *)
(***************************************************************************)
\* fetchNextPage is called at most MaxCalls times.
MaxCalls == 6

\* The page size, as in createUsers(0, 25).
PageSize == 25

\* createUsers(from, to): the users with ids from..to-1, in order.
createUsers(from, to) == [i \in 1..(to - from) |-> i - 1 + from]

RrInit ==
    /\ rrUsers = createUsers(0, PageSize)
    /\ rrRendered = createUsers(0, PageSize)
    /\ rrIsLoading = FALSE
    /\ rrCalls = <<>>

RrCallIds == 1..Len(rrCalls)

RrWaiting == {c \in RrCallIds : rrCalls[c].pc = "waiting"}

\* fetchNextPage up to its await: the table holds the function of the last
\* render, so `users` is what that render saw; newUsers is computed from
\* it, then setIsLoading(true).
fetchNextPage ==
    /\ Len(rrCalls) < MaxCalls
    /\ rrIsLoading' = TRUE
    /\ rrCalls' = Append(rrCalls,
           [users |-> rrRendered,
            newUsers |-> createUsers(Len(rrRendered),
                                     Len(rrRendered) + PageSize),
            pc |-> "waiting"])
    /\ UNCHANGED <<rrUsers, rrRendered, dfVars, dbVars, srVars, ctVars,
                   rfVars, kyVars>>

\* The re-render asked for by setUsers: the table gets the fetchNextPage
\* of the new render.
RrRerender ==
    /\ rrRendered # rrUsers
    /\ rrRendered' = rrUsers
    /\ UNCHANGED <<rrUsers, rrIsLoading, rrCalls, dfVars, dbVars, srVars,
                   ctVars, rfVars, kyVars>>

\* A functional update, setUsers(prev => [...prev, ...newUsers]).
AppendToCurrent(call) == rrUsers \o call.newUsers

\* `[...users, ...newUsers]`: both are constants of the call's closure.
AppendPage(call) == call.users \o call.newUsers

\* The 1000 ms timeout of call c resolves and the call continues:
\* setIsLoading(false), setUsers([...users, ...newUsers]).  All timeouts
\* have the same delay, so they resolve in the order of the calls.
TimeoutResolves(c) ==
    /\ c \in RrWaiting
    /\ \A b \in RrWaiting : c <= b
    /\ rrIsLoading' = FALSE
    /\ rrUsers' = AppendPage(rrCalls[c])
    /\ rrCalls' = [rrCalls EXCEPT ![c].pc = "done"]
    /\ UNCHANGED <<rrRendered, dfVars, dbVars, srVars, ctVars, rfVars,
                   kyVars>>

(***************************************************************************)
(* Keys (src/unnamed/part_003, lines 41-59) over the default users of      *)
(* lib/users (src/unnamed/part_002, lines 1-6).                            *)
(***************************************************************************)
\* Array(10): the number of default users.
NumUsers == 10

\* The default users' ids, 0..9 in order.
DefaultUsers == [i \in 1..NumUsers |-> i - 1]

Ids(us) == {us[i] : i \in 1..Len(us)}

KyInit ==
    /\ keysUsers = DefaultUsers
    /\ keysClicked = {}

\* users.filter((_, index) => index !== id): filtering by position.
FilterByIndex(us, id) ==
    IF id + 1 \in 1..Len(us)
    THEN SubSeq(us, 1, id) \o SubSeq(us, id + 2, Len(us))
    ELSE us

\* users.filter((user) => user.id !== id)
FilterById(us, id) ==
    LET Keep(u) == u # id IN SelectSeq(us, Keep)

\* The button of user id is clicked: handleRemove(id), then the re-render.
\* Only the users in the list have a button.
handleRemove(id) ==
    /\ id \in Ids(keysUsers)
    /\ keysUsers' = FilterById(keysUsers, id)
    /\ keysClicked' = keysClicked \cup {id}
    /\ UNCHANGED <<dfVars, dbVars, srVars, ctVars, rfVars, rrVars>>

(***************************************************************************)
(* Specifications.  Each runs one component; the others stay as            *)
(* constructed.                                                            *)
(***************************************************************************)
\* The useContext demo as the application renders it: one provider, whose
\* value is the user.
CtParked == CtInit /\ providers = <<UserYou>>

DemosParked == CtParked /\ RfInit /\ RrInit /\ KyInit

SrParked == SrInit /\ userService = [k \in Values |-> "ok"]

DfParked == DfInit /\ transport = [p \in Pages |-> "ok"]

DbParked == DbInit /\ value = "" /\ delay = 0

\* DataFetching as written.  The ref starts as useRef(null) (line 11), so
\* every call of fetchPosts throws at line 15 and no attempt is ever issued:
\* FetchSettles, JsonSettles and DfRerender, the translations of lines
\* 18-32 and of the re-render setError asks for, are enabled in no state
\* reachable from DfInit and are therefore no disjuncts of Next.
Init == DfInit /\ DbParked /\ SrParked /\ DemosParked

Next ==
    \/ DfMount
    \/ IncreasePage
    \/ DfUnmount

Spec == Init /\ [][Next]_vars

\* useDebounce.
InitDebounce == DbInit /\ DfParked /\ SrParked /\ DemosParked

NextDebounce ==
    \/ DbMount
    \/ \E v \in Values : SetValue(v)
    \/ \E d \in Delays : SetDelay(d)
    \/ \E t \in TimerIds : TimerFires(t)
    \/ DbUnmount
    \/ Tick

SpecDebounce == InitDebounce /\ [][NextDebounce]_vars

\* The debounced search component.
InitSearch ==
    /\ DbInit
    /\ value = ""
    /\ delay = DefaultDelay
    /\ SrInit
    /\ DfParked
    /\ DemosParked

NextSearch ==
    \/ SrMount
    \/ \E v \in Values : SrType(v)
    \/ \E t \in TimerIds : SrTimerFires(t)
    \/ SrRerender
    \/ \E l \in LoadIds : LoadSettles(l)
    \/ SrUnmount
    \/ Tick

SpecSearch == InitSearch /\ [][NextSearch]_vars

\* DataFetching, useDebounce and the search component as constructed.
CoreParked == DfParked /\ DbParked /\ SrParked

\* Profile rendered under any chain of providers.
InitContext == CtInit /\ RfInit /\ RrInit /\ KyInit /\ CoreParked

NextContext == RenderProfile

SpecContext == InitContext /\ [][NextContext]_vars

\* The useState-vs-useRef demo.
InitUseRef == RfInit /\ CtParked /\ RrInit /\ KyInit /\ CoreParked

NextUseRef ==
    \/ handleIncrement
    \/ handleOnlyRef
    \/ forceRerender

SpecUseRef == InitUseRef /\ [][NextUseRef]_vars

\* RenderRows.
InitRenderRows == RrInit /\ CtParked /\ RfInit /\ KyInit /\ CoreParked

NextRenderRows ==
    \/ fetchNextPage
    \/ \E c \in RrCallIds : TimeoutResolves(c)
    \/ RrRerender

SpecRenderRows == InitRenderRows /\ [][NextRenderRows]_vars

\* Keys.
InitKeys == KyInit /\ CtParked /\ RfInit /\ RrInit /\ CoreParked

NextKeys == \E id \in Ids(DefaultUsers) : handleRemove(id)

SpecKeys == InitKeys /\ [][NextKeys]_vars

(***************************************************************************)
(* Properties of DataFetching.                                             *)
(***************************************************************************)
\* The effect has run for the current page and no request is outstanding.
Settled == dfMounted = "mounted" /\ InFlight = {}

\* C1: once every fetch has settled, data and error are those of the fetch
\* for the last page: its posts and no error if it succeeded, its failure
\* if it failed, whatever happened for the pages before it.
C1_SettledReflectsLastKey ==
    Settled =>
        /\ transport[page] = "ok" =>
               posts = PostsOf(page) /\ error = NoError
        /\ transport[page] # "ok" =>
               error = ErrorOf(page, transport[page])

\* C3: every page the component has observed, the first included, had a
\* fetch issued for it, and no call of fetchPosts ended in an exception.
C3_EveryKeyIssuesAFetch ==
    dfMounted # "unmounted" =>
        /\ unhandled = 0
        /\ Len(attempts) = page - InitialPage + 1
        /\ attempts[Len(attempts)].page = page

\* C5: after the page has changed at least once, whatever the requests for
\* the earlier pages went on to do, the settled state is the last page's:
\* its posts if its request succeeded, else the posts shown before it was
\* issued; an error, if any, is the last page's.
C5_SupersededNeverShown ==
    (Settled /\ page > InitialPage) =>
        /\ posts = (IF transport[page] = "ok" THEN PostsOf(page)
                                              ELSE prevPosts)
        /\ error.page \in {NoError.page, page}

\* C8: when the request for the current page fails (network or decode
\* failure), error is that failure, isLoading is false and posts is what it
\* was before the request.
C8_FailureSetsErrorKeepsData ==
    (Settled /\ transport[page] # "ok") =>
        /\ error = ErrorOf(page, transport[page])
        /\ isLoading = FALSE
        /\ posts = prevPosts

\* C9: when the request for the current page succeeds, posts is its
\* result, isLoading is false and error is none.
C9_SuccessSetsDataClearsError ==
    (Settled /\ transport[page] = "ok") =>
        /\ posts = PostsOf(page)
        /\ isLoading = FALSE
        /\ error = NoError

\* C10: from every mounted state the page can change, and a page change
\* (like the first observation) leaves the component fetching: isLoading
\* true, error none, the controller that was current aborted.
C10_KeyChangeEntersFetching ==
    [][/\ (dfMounted = "mounted" /\ page < InitialPage + MaxPage)
            => ENABLED IncreasePage
       /\ (page' # page \/ (dfMounted = "unmounted" /\ dfMounted' = "mounted"))
            => /\ isLoading' = TRUE
               /\ error' = NoError
               /\ abortControllerRef # Null
                    => abortControllerRef \in aborted']_vars

\* C15: no call of fetchPosts ends in an exception that nothing handles:
\* starting an attempt, like each of its outcomes, ends in a state of
\* posts, isLoading and error.
C15_NoAttemptEscapes == unhandled = 0

(***************************************************************************)
(* Properties of useDebounce.                                              *)
(***************************************************************************)
LastTimer == Len(timers)

Written == {writes[i] : i \in 1..Len(writes)}

\* The time at which timer t may run at the earliest.
Due(t) == timers[t].at + timers[t].delay

\* C4: of raw values that follow one another in less than the delay, only
\* the last is ever written to the stable value: a timer superseded before
\* its delay elapsed is cleared and never runs; the latest timer is the one
\* for the current raw value and delay, is still pending until its delay has
\* elapsed, and runs once; when no timer is pending the stable value is the
\* current raw value.
C4_BurstYieldsOneUpdateToLast ==
    /\ \A k \in TimerIds \ {LastTimer} :
           timers[k + 1].at < Due(k) =>
               timers[k].state = "cleared" /\ k \notin Written
    /\ \A i, j \in 1..Len(writes) : i # j => writes[i] # writes[j]
    /\ \A t \in Written : timers[t].state = "fired"
    /\ dbMounted = "mounted" =>
           /\ timers[LastTimer].value = value
           /\ timers[LastTimer].delay = delay
           /\ now < Due(LastTimer) => timers[LastTimer].state = "live"
           /\ LiveTimers \subseteq {LastTimer}
           /\ LiveTimers = {} =>
                  /\ writes # <<>>
                  /\ writes[Len(writes)] = LastTimer
                  /\ debouncedValue = value

\* A burst has run its course: every timer but the last (the mount's and
\* those of the burst's earlier values) was superseded in less than its
\* delay and cleared, the last one ran, and the stable value went from the
\* initial raw value straight to the burst's last value, which differs from
\* the value typed just before it.
C4_Witness ==
    /\ LastTimer >= 3
    /\ timers[LastTimer].state = "fired"
    /\ \A k \in 1..(LastTimer - 1) :
           timers[k].state = "cleared" /\ timers[k + 1].at < Due(k)
    /\ timers[LastTimer - 1].value # timers[LastTimer].value
    /\ debouncedValue = timers[LastTimer].value
    /\ debouncedValue # timers[1].value

\* C7: unmounting leaves no timer pending, and after it the stable value
\* is never written again.
C7_TeardownCancelsTimer ==
    [][dbMounted' = "disposed" =>
          /\ \A t \in TimerIds : timers'[t].state # "live"
          /\ dbMounted = "disposed" =>
                 writes' = writes /\ debouncedValue' = debouncedValue]_vars

\* Unmounted with the timer still pending; its delay has since elapsed and
\* nothing was written.
C7_Witness ==
    /\ dbMounted = "disposed"
    /\ timers[LastTimer].state = "cleared"
    /\ now >= Due(LastTimer)
    /\ LastTimer \notin Written
    /\ debouncedValue # timers[LastTimer].value

\* A timer's callback runs in this step.
Fires(t) == timers[t].state = "live" /\ timers'[t].state = "fired"

\* The timer created in this step.
NewTimer == timers'[Len(timers')]

\* C16: the hook never has more than one pending timer, and a step that
\* changes the raw value clears the timer that was pending and leaves the
\* one it creates as the only pending timer.
C16_AtMostOneLiveTimer ==
    [][/\ Cardinality(LiveTimers') <= 1
       /\ value' # value =>
              /\ \A t \in LiveTimers : timers'[t].state = "cleared"
              /\ Len(timers') = Len(timers) + 1
              /\ LiveTimers' = {Len(timers')}]_vars

\* A raw value was replaced while its timer was pending: that timer is
\* cleared and the new value's timer is the pending one.
C16_Witness ==
    /\ dbMounted = "mounted"
    /\ LastTimer >= 2
    /\ timers[LastTimer - 1].state = "cleared"
    /\ timers[LastTimer - 1].value # timers[LastTimer].value
    /\ now < Due(LastTimer - 1)
    /\ LiveTimers = {LastTimer}

\* C18: a step that changes the delay clears the pending timer and creates
\* one for the current raw value and the new delay, counted from the time
\* of the change; a cleared timer stays cleared, and a timer runs no
\* earlier than its own delay after it was created, writing its value.
C18_DelayChangeReschedules ==
    [][/\ delay' # delay =>
              /\ \A t \in LiveTimers : timers'[t].state = "cleared"
              /\ Len(timers') = Len(timers) + 1
              /\ NewTimer = [value |-> value, delay |-> delay',
                             at |-> now, state |-> "live"]
              /\ timerRef' = Len(timers')
       /\ \A t \in TimerIds :
              /\ timers[t].state = "cleared" => timers'[t].state = "cleared"
              /\ Fires(t) =>
                     /\ now >= Due(t)
                     /\ dbMounted = "mounted" =>
                            debouncedValue' = timers[t].value]_vars

\* The delay was changed while the timer of a newly typed value was
\* pending: that timer is cleared, its delay has since elapsed, and the
\* timer created with the new delay ran and wrote the typed value.
C18_Witness ==
    /\ LastTimer >= 3
    /\ timers[LastTimer - 1].state = "cleared"
    /\ timers[LastTimer].delay # timers[LastTimer - 1].delay
    /\ timers[LastTimer].value = timers[LastTimer - 1].value
    /\ timers[LastTimer].at < Due(LastTimer - 1)
    /\ now >= Due(LastTimer - 1)
    /\ timers[LastTimer].state = "fired"
    /\ debouncedValue = timers[LastTimer].value
    /\ debouncedValue # timers[1].value

\* C19: with delay 0 a step that changes the raw value leaves the stable
\* value as it was and creates a timer for the new value that is due at
\* once; when a timer with delay 0 runs, the stable value becomes the
\* current raw value.
C19_ZeroDelayStillScheduled ==
    [][/\ (value' # value /\ delay = 0) =>
              /\ debouncedValue' = debouncedValue
              /\ NewTimer = [value |-> value', delay |-> 0,
                             at |-> now, state |-> "live"]
              /\ NewTimer.at + NewTimer.delay <= now'
       /\ \A t \in TimerIds :
              (Fires(t) /\ timers[t].delay = 0 /\ dbMounted = "mounted")
              => debouncedValue' = value]_vars

\* With delay 0 the raw value changed and, with no time having passed, the
\* timer created for it ran: the stable value is the new raw value.
C19_Witness ==
    /\ dbMounted = "mounted"
    /\ delay = 0
    /\ LastTimer >= 2
    /\ timers[LastTimer].delay = 0
    /\ timers[LastTimer].value # timers[LastTimer - 1].value
    /\ timers[LastTimer].state = "fired"
    /\ timers[LastTimer].at = now
    /\ debouncedValue = value
    /\ value = timers[LastTimer].value

\* C26: the stable value starts as the first raw value, before any timer
\* exists, and whenever the hook is mounted with no timer pending the
\* stable value is the current raw value.
C26_Quiescence ==
    /\ timers = <<>> => debouncedValue = value
    /\ (dbMounted = "mounted" /\ LiveTimers = {}) => debouncedValue = value

\* The hook is at rest after a change: no timer is pending, the timer of
\* the latest raw value ran, and the stable value is that value, not the
\* first one.
C26_Witness ==
    /\ dbMounted = "mounted"
    /\ LiveTimers = {}
    /\ LastTimer >= 2
    /\ timers[LastTimer].state = "fired"
    /\ debouncedValue = value
    /\ value # timers[1].value

\* The raw value the stable value holds after the writes so far: the first
\* raw value until a timer has run, then the value of the last timer that
\* ran.
StableAfterWrites ==
    IF writes # <<>> THEN timers[writes[Len(writes)]].value
    ELSE IF timers # <<>> THEN timers[1].value
    ELSE value

\* C27: the stable value is always a raw value the hook was given, and the
\* timers that write it run in the order in which their raw values were
\* given: a timer never runs after a timer created later has run, nor after
\* it was cleared.
C27_StableIsOrderedSubsequence ==
    /\ debouncedValue = StableAfterWrites
    /\ \A i, j \in 1..Len(writes) : i < j => writes[i] < writes[j]
    /\ \A t \in Written : timers[t].state = "fired"
    /\ \A t \in TimerIds : timers[t].state = "cleared" => t \notin Written

\* Two timers have run, with a cleared one between them: the stable value
\* went from the first raw value to the last one, skipping the value that
\* was replaced before its delay elapsed.
C27_Witness ==
    /\ Len(writes) = 2
    /\ \E k \in TimerIds :
           /\ writes[1] < k
           /\ k < writes[2]
           /\ timers[k].state = "cleared"
           /\ timers[k].value # timers[writes[2]].value
    /\ timers[writes[1]].value # timers[writes[2]].value
    /\ debouncedValue = timers[writes[2]].value

(***************************************************************************)
(* Properties of the debounced search component.                           *)
(***************************************************************************)
\* C11: loading does not stay true: while the component is mounted, once
\* every fetch it issued has settled (resolved or rejected), loading is
\* false.
C11_LoadingNeverStuck ==
    (dbMounted = "mounted" /\ loads # <<>> /\ PendingLoads = {})
        => loading = FALSE

\* The load issued for the latest debounced search text.
LastLoad == Len(loads)

\* C14: of overlapping fetchUsers calls only the latest one's response is
\* applied to users: a fetch still in flight when a newer one is issued is
\* cancelled, so at most the latest load is pending, and the completion of
\* a load that is not the latest leaves users as it was.
C14_OnlyLatestResponseApplied ==
    [][/\ PendingLoads' \subseteq {LastLoad'}
       /\ \A l \in LoadIds :
              (loads[l].pc = "pending" /\ loads'[l].pc = "done"
                  /\ l # LastLoad)
              => users' = users]_vars

\* C23: loading is true whenever the load for the latest debounced search
\* text has been started and has not settled; an older load that settles
\* does not turn it off.
C23_LoadingWhileLatestInFlight ==
    (dbMounted = "mounted" /\ loads # <<>> /\ loads[LastLoad].pc = "pending")
        => loading = TRUE

\* The search texts fetchUsers has been called with.
LoadKeys == {loads[l].key : l \in LoadIds}

\* C25: fetchUsers is called once on mount and otherwise only with a
\* debounced search text that differs from the one of the call before it;
\* every such text was written by a timer that ran, so a text replaced
\* before its delay elapsed causes no call, and there is at most one call
\* per timer that ran.  Typing calls nothing of its own: a keystroke's
\* render only runs the call a debounced text was already waiting for.
C25_FetchOnlyOnStableChange ==
    [][/\ Len(loads') # Len(loads) =>
              /\ Len(loads') = Len(loads) + 1
              /\ loads'[Len(loads')].key = debouncedValue'
              /\ \/ dbMounted = "unmounted" /\ dbMounted' = "mounted"
                 \/ /\ loads # <<>>
                    /\ loads[Len(loads)].key # debouncedValue'
                    /\ \E t \in Written :
                           timers[t].value = loads'[Len(loads')].key
       /\ (value' # value /\ ~EffectPending) => loads' = loads
       /\ Len(loads') <= 1 + Len(writes')]_vars

\* A burst of two keystrokes has run its course: the first text's timer was
\* cleared before its delay elapsed and no fetch was made for it; the last
\* text's timer ran and caused the one fetch after the mount's.
C25_Witness ==
    /\ LastTimer >= 3
    /\ timers[LastTimer - 1].state = "cleared"
    /\ timers[LastTimer].at < Due(LastTimer - 1)
    /\ timers[LastTimer - 1].value \notin LoadKeys
    /\ timers[LastTimer].state = "fired"
    /\ Len(loads) = 2
    /\ loads[2].key = timers[LastTimer].value
    /\ loads[2].key = value

(***************************************************************************)
(* Properties of the small demos.                                          *)
(***************************************************************************)
\* The value of the provider nearest to the consumer.
Nearest == providers[Len(providers)]

\* C21, as stated: useUserContext throws when no provider is above the
\* consumer, and under a provider it returns exactly the provider's value.
C21_ThrowsIffNotWrapped ==
    user # Uncalled =>
        /\ providers = <<>> => user = Threw
        /\ providers # <<>> => user = Returned(Nearest)

\* C21, amended: useUserContext throws when no provider is above the
\* consumer or the nearest provider's value is undefined; under a provider
\* with any other value, null included, it returns exactly that value.
C21_ThrowsIffUndefined ==
    user # Uncalled =>
        /\ providers = <<>> => user = Threw
        /\ (providers # <<>> /\ Nearest = Undefined) => user = Threw
        /\ (providers # <<>> /\ Nearest # Undefined) =>
               user = Returned(Nearest)

\* Profile was rendered under two nested providers with different values
\* and got the inner one's user.
C21_Witness ==
    /\ Len(providers) = 2
    /\ providers[1] # providers[2]
    /\ providers[2] = UserYou
    /\ user = Returned(UserYou)
    /\ profile = [threw |-> "", text |-> "You"]

\* Only the Increment button has been used.
OnlyIncrement ==
    /\ renderCount = 0
    /\ \A k \in 1..Len(console) : console[k].handler = "handleIncrement"

\* C22: when only Increment is clicked, the k-th click logs state k - 1 and
\* ref k, and the state is k once the click has been rendered.
C22_KthClickLogsOldStateNewRef ==
    OnlyIncrement =>
        /\ \A k \in 1..Len(console) : console[k].args = <<k - 1, k>>
        /\ count = Len(console)

\* Three clicks of Increment and nothing else: the third logged 2 and 3.
C22_Witness ==
    /\ OnlyIncrement
    /\ Len(console) = 3
    /\ console[3].args = <<2, 3>>
    /\ count = 3

\* C28: the users list is always the ids 0..n-1, once each and in order,
\* with n a positive multiple of the page size, whatever calls overlapped.
C28_NoDuplicateOrMissingIds ==
    /\ \A i \in 1..Len(rrUsers) : rrUsers[i] = i - 1
    /\ Len(rrUsers) >= PageSize
    /\ Len(rrUsers) % PageSize = 0

\* Two calls that were started from the same render, the second while the
\* first was waiting, have both completed, and a call started after them
\* has completed too.
C28_Witness ==
    /\ Len(rrCalls) >= 3
    /\ \A c \in 1..3 : rrCalls[c].pc = "done"
    /\ rrCalls[1].users = rrCalls[2].users
    /\ rrCalls[3].users # rrCalls[2].users
    /\ Len(rrUsers) = 3 * PageSize

\* C29: the list is the default users without those whose button was
\* clicked, in the default order and without duplicates; removing id 2
\* from [0, 1, 2, 3, 4] gives [0, 1, 3, 4].
C29_RemoveExactlyThatUser ==
    /\ LET Kept(u) == u \notin keysClicked
       IN  keysUsers = SelectSeq(DefaultUsers, Kept)
    /\ \A i, j \in 1..Len(keysUsers) : i < j => keysUsers[i] < keysUsers[j]
    /\ FilterById(<<0, 1, 2, 3, 4>>, 2) = <<0, 1, 3, 4>>

\* Users 0 and 2 were removed: user 1 is still first and user 3 follows.
C29_Witness ==
    /\ keysClicked = {0, 2}
    /\ Len(keysUsers) = NumUsers - 2
    /\ keysUsers[1] = 1
    /\ keysUsers[2] = 3

====
